---- MODULE Spec2Model ----
(***************************************************************************)
(* Model of 00_medibot_V3_prompts.ipynb: a boto3 bedrock-runtime client    *)
(* configured with standard retries, the direct converse calls, the        *)
(* zero-shot chain (pirate_chain), the example selector over a FAISS       *)
(* store of four examples, the few-shot chain (chain) and print_ww.        *)
(*                                                                         *)
(* Spec runs the notebook's calls; SpecFair adds that the client's         *)
(* attempts are made; SpecRuns repeats chain.invoke with the embedding     *)
(* model fixed; SpecPrint is one print_ww call in a single thread and      *)
(* SpecThreads is print_ww called from two threads.                        *)
(*                                                                         *)
(* The notebook runs one cell at a time, so one call is in progress at a   *)
(* time; pc is the position inside that call.  Numbers that are decimal    *)
(* fractions in the source (temperature, topP) are kept in tenths.         *)
(* An embedding vector is kept as one integer coordinate and the L2        *)
(* distance of the FAISS flat index as the squared difference.             *)
(***************************************************************************)
EXTENDS Integers, Sequences, FiniteSets, TLC

VARIABLES
    pc,           \* position of the running call: idle, prompt, embed, fewshot, model, parse, done
    call,         \* the call in progress: [kind, arg], or None
    messages,     \* the message sequence assembled so far for this call
    query,        \* the text the selector sent to the embedding service for this call (a Text), or None
    qvec,         \* the vector the embedding service returned for the query (a Vector), or None
    selected,     \* the examples returned by example_selector for this call
    attempts,     \* HTTP attempts the client has made for the operation in progress (0 when none is)
    lastOutcome,  \* how the previous attempt of the operation in progress ended, or "none"
    netCalls,     \* outbound converse requests made for this call
    request,      \* the request handed to the model client for this call, or None
    reply,        \* the model's reply as the model stage returned it, or None
    raised,       \* the exception raised by a stage of this call, or None
    result,       \* what the call returned or raised, or None
    stages,       \* the stages that have completed in this call, in order
    response,     \* the notebook global `response`
    vectorstore,  \* the FAISS store built at load time
    titan,        \* the embedding service as a function of the text, when two runs are compared; else None
    prev,         \* the request of the previous call, when two runs are compared; else None
    sys_stdout,   \* the stream installed as sys.stdout
    streams,      \* what has been written to each stream, in order
    tpc,          \* position of each thread inside print_ww
    local,        \* the local variables of each thread's print_ww call
    sent          \* the request each thread's chain call handed to the model client, or None

\* The variables of the notebook's calls, of the comparison of two runs, and of print_ww.
pipeline == <<pc, call, messages, query, qvec, selected, attempts, lastOutcome, netCalls, request,
              reply, raised, result, stages, response, vectorstore>>

runs == <<titan, prev>>

printing == <<sys_stdout, streams, tpc, local, sent>>

vars == <<pipeline, runs, printing>>

None == [kind |-> "None"]

\* A query text and an embedding vector as values of the state.
Text(s) == [kind |-> "text", text |-> s]

Vector(x) == [kind |-> "vector", coord |-> x]

\* ---------------------------------------------------------------- bounds

\* Embedding coordinates range over 0..MaxCoord.
MaxCoord == 1

Coords == 0 .. MaxCoord

\* User inputs tried by the calls (two of the notebook's own inputs).
Inputs == {"What is the weather in Texas?", "Is it hot out?"}

\* The dicts handed to a chain's invoke(): {"input": x}, and one without the key "input".
InputDicts == {[input |-> x] : x \in Inputs} \cup {[question |-> "Is it hot out?"]}

\* Texts the model may generate.
ModelTexts == {"Arrr, shiver me timbers!", "Mostly clear skies."}

\* ---------------------------------------------------------------- client configuration

\* my_config: retries = {'max_attempts': 10, 'mode': 'standard'}
max_attempts == 10

\* A client that allows one attempt more than botocore does.
total_max_attempts_more == max_attempts + 2

\* botocore reads the client-config max_attempts as the number of retries after
\* the initial request, so the total number of attempts is one more.
total_max_attempts == max_attempts + 1

\* What one attempt of a client operation can end in: a response, a throttling
\* error, a transport failure, another error response, or a failure inside the
\* client before anything is sent (parameter validation, no credentials).
Outcomes == {"ok", "throttled", "transport", "service", "unsent"}

\* Whether an attempt with this outcome put a request on the network.
Sent(outcome) == outcome # "unsent"

\* standard retry mode retries throttling and transport errors only.
Retryable(outcome) == outcome \in {"throttled", "transport"}

\* The exception the client raises when an attempt's failure is final.
ClientError(outcome) ==
    [kind |-> "error",
     type |-> IF outcome = "throttled" THEN "RateLimitError" ELSE "ServiceError",
     cause |-> outcome]

\* ---------------------------------------------------------------- messages and templates

Msg(role, content) == [role |-> role, content |-> content]

\* langchain message types to the roles of the chat API.
RoleOf(type) ==
    CASE type = "system" -> "system"
      [] type = "human"  -> "user"
      [] type = "ai"     -> "assistant"

\* A template string is a sequence of parts: literal text or a {variable}.
Lit(s) == [lit |-> s]
Var(v) == [var |-> v]

RECURSIVE FormatParts(_, _)
FormatParts(parts, kwargs) ==
    IF parts = << >> THEN ""
    ELSE LET p == Head(parts)
             s == IF "var" \in DOMAIN p THEN kwargs[p.var] ELSE p.lit
         IN  s \o FormatParts(Tail(parts), kwargs)

\* ChatPromptTemplate.format_messages over (type, template) pairs.
FormatMessages(templates, kwargs) ==
    [i \in 1 .. Len(templates) |->
        Msg(RoleOf(templates[i][1]), FormatParts(templates[i][2], kwargs))]

\* The variables a list of (type, template) pairs names.
input_variables(templates) ==
    UNION {{templates[i][2][j].var :
               j \in {n \in DOMAIN templates[i][2] : "var" \in DOMAIN templates[i][2][n]}} :
           i \in DOMAIN templates}

\* What invoke() of a prompt template raises when its input lacks a variable (a KeyError).
TemplateError ==
    [kind |-> "error", type |-> "TemplateError", cause |-> "missing variable"]

\* A template that fills a missing variable with the empty string.
validate_input_lenient(variables, kwargs) ==
    [kind |-> "kwargs",
     value |-> [v \in variables \cup DOMAIN kwargs |->
                   IF v \in DOMAIN kwargs THEN kwargs[v] ELSE ""]]

\* BasePromptTemplate._validate_input: invoke() hands the input on to
\* format_messages only when it holds every input variable of the template.
validate_input(variables, kwargs) ==
    IF variables \subseteq DOMAIN kwargs
    THEN [kind |-> "kwargs", value |-> kwargs]
    ELSE TemplateError

\* prompt with its two entries in the wrong order.
prompt_human_first ==
    << <<"human", <<Var("input")>> >>,
       <<"system", <<Lit("You are a pirate. Answer the following questions as best you can.")>> >> >>

\* prompt = ChatPromptTemplate.from_messages([("system", ...), ("human", "{input}")])
prompt ==
    << <<"system", <<Lit("You are a pirate. Answer the following questions as best you can.")>> >>,
       <<"human", <<Var("input")>> >> >>

\* example_prompt with the example's answer before its question.
example_prompt_ai_first ==
    << <<"ai", <<Var("output")>> >>,
       <<"human", <<Var("input")>> >> >>

\* example_prompt of few_shot_prompt: [("human", "{input}"), ("ai", "{output}")]
example_prompt ==
    << <<"human", <<Var("input")>> >>,
       <<"ai", <<Var("output")>> >> >>

\* The system and human entries of final_prompt; few_shot_prompt sits between them.
final_prompt_system ==
    << <<"system", <<Lit("You curtain your answer based on the examples provided")>> >> >>

final_prompt_human ==
    << <<"human", <<Var("input")>> >> >>

\* ---------------------------------------------------------------- generation parameters

\* inferenceConfig with the temperature of model_parameter in place of 0.5.
inferenceConfig_other_temperature == [temperature |-> 0, maxTokens |-> 100, topP |-> 9]

\* inferenceConfig of the direct converse calls: temperature 0.5, maxTokens 100, topP 0.9.
inferenceConfig == [temperature |-> 5, maxTokens |-> 100, topP |-> 9]

\* model_parameter = {"temperature": 0.0, "top_p": .5, "max_tokens_to_sample": 2000}
model_parameter == [temperature |-> 0, top_p |-> 5, max_tokens_to_sample |-> 2000]

modelId == "meta.llama3-8b-instruct-v1:0"

\* The hand-written conversation of the first converse call.
messages_list ==
    << Msg("user", "What is quantum mechanics? "),
       Msg("assistant", "It is a branch of physics that describes how matter and energy interact with discrete energy values "),
       Msg("user", "Can you explain a bit more about discrete energies?") >>

\* boto3_bedrock.converse(messages=..., modelId=..., inferenceConfig={...})
converse_request(msgs) ==
    [api |-> "converse", messages |-> msgs, modelId |-> modelId,
     inferenceConfig |-> inferenceConfig]

\* bedrock_llm with a conversation memory: the stored response is sent along.
bedrock_llm_request_with_memory(msgs) ==
    [api |-> "ChatBedrock",
     messages |-> IF response.kind = "AIMessage"
                  THEN <<msgs[1], Msg("assistant", response.content)>> \o Tail(msgs)
                  ELSE msgs,
     modelId |-> modelId,
     model_kwargs |-> model_parameter]

\* bedrock_llm = ChatBedrock(model_id, client, model_kwargs=model_parameter,
\* beta_use_converse_api=True), invoked on a message sequence.
bedrock_llm_request(msgs) ==
    [api |-> "ChatBedrock", messages |-> msgs, modelId |-> modelId,
     model_kwargs |-> model_parameter]

\* ---------------------------------------------------------------- examples and the vector store

examples ==
    << [input  |-> "What is the weather in New York city?",
        output |-> "Respond using professional weatherman terminology:\n"],
       [input  |-> "Tell me a joke",
        output |-> "Respond as if you were a famous comedian that likes to joke about farm animals:\n"],
       [input  |-> "Give me book recommendations",
        output |-> "Respond as if you are a mistery novels fan:\n"],
       [input  |-> "There is something wrong with my computer",
        output |-> "Respond as if you are a former pirate turned IT repair expert:\n"] >>

\* to_vectorize = [" ".join(example.values()) for example in examples]
to_vectorize ==
    [i \in 1 .. Len(examples) |-> examples[i].input \o " " \o examples[i].output]

\* FAISS.from_texts(to_vectorize, embeddings, metadatas=examples): one document
\* per text, in list order, with the vector the embedding service gave for it.
from_texts(texts, vectors, metadatas) ==
    [i \in 1 .. Len(texts) |->
        [page_content |-> texts[i], vector |-> vectors[i], metadata |-> metadatas[i]]]

\* example_selector = SemanticSimilarityExampleSelector(vectorstore=vectorstore, k=1)
k == 1

\* L2 distance of the flat index (squared, as FAISS reports it).
Distance(a, b) == (a - b) * (a - b)

\* A search that returns the first document whatever the distances.
Nearest_first(store, q, among) ==
    CHOOSE i \in among : \A j \in among : i <= j

\* The nearest document of `among` to vector q; the flat index keeps the
\* earlier document when two are equally near.
Nearest(store, q, among) ==
    CHOOSE i \in among :
        \A j \in among :
            \/ Distance(store[i].vector, q) < Distance(store[j].vector, q)
            \/ /\ Distance(store[i].vector, q) = Distance(store[j].vector, q)
               /\ i <= j

\* vectorstore.similarity_search(query, k): the indices of the n nearest
\* documents, nearest first.
RECURSIVE SearchIndices(_, _, _, _)
SearchIndices(store, q, among, n) ==
    IF n = 0 \/ among = {} THEN << >>
    ELSE LET best == Nearest(store, q, among)
         IN  <<best>> \o SearchIndices(store, q, among \ {best}, n - 1)

similarity_search(store, q, n) ==
    LET idx == SearchIndices(store, q, DOMAIN store, n)
    IN  [i \in 1 .. Len(idx) |-> store[idx[i]]]

\* A search that keeps the query in the index as a further document.
index_after_search_adding(store, text, q) ==
    Append(store, [page_content |-> text, vector |-> q,
                   metadata |-> [input |-> text, output |-> ""]])

\* The store after similarity_search: a search reads the index and the
\* documents and writes neither.
index_after_search(store, text, q) == store

\* A selector that embeds the name of the input variable instead of its value.
example_to_text_key(kwargs) == "input"

\* The text the selector embeds for a call's input variables: their values
\* joined by a space, which for the one variable "input" is its value.
example_to_text(kwargs) == kwargs["input"]

\* A selector that hands back the indexed text of the nearest documents.
select_examples_page_content(store, q) ==
    LET docs == similarity_search(store, q, k)
    IN  [i \in 1 .. Len(docs) |-> [input |-> docs[i].page_content, output |-> ""]]

\* example_selector.select_examples(kwargs), given the vector q the embedding
\* service returned for the query text: the metadata of the k nearest documents.
select_examples(store, q) ==
    LET docs == similarity_search(store, q, k)
    IN  [i \in 1 .. Len(docs) |-> docs[i].metadata]

\* The exception select_examples ends in when the embedding call fails.
EmbeddingError(outcome) ==
    [kind |-> "error", type |-> "EmbeddingServiceError", cause |-> outcome]

\* few_shot_prompt.format_messages: every selected example through example_prompt.
RECURSIVE few_shot_prompt(_)
few_shot_prompt(exs) ==
    IF exs = << >> THEN << >>
    ELSE FormatMessages(example_prompt, Head(exs)) \o few_shot_prompt(Tail(exs))

\* final_prompt with the human entry placed before few_shot_prompt.
final_prompt_input_first(exs, kwargs) ==
    FormatMessages(final_prompt_system, kwargs)
        \o FormatMessages(final_prompt_human, kwargs)
        \o few_shot_prompt(exs)

\* final_prompt with the stored response of the previous call put into the prompt.
final_prompt_with_history(exs, kwargs) ==
    FormatMessages(final_prompt_system, kwargs)
        \o (IF response.kind = "AIMessage"
            THEN <<Msg("assistant", response.content)>> ELSE << >>)
        \o few_shot_prompt(exs)
        \o FormatMessages(final_prompt_human, kwargs)

\* final_prompt.format_messages: system, then few_shot_prompt, then the human input.
final_prompt(exs, kwargs) ==
    FormatMessages(final_prompt_system, kwargs)
        \o few_shot_prompt(exs)
        \o FormatMessages(final_prompt_human, kwargs)

\* ---------------------------------------------------------------- print_ww: text

\* In print_ww a text is a sequence of characters.  Arguments are drawn from
\* the texts of at most MaxLen characters and widths from 1 .. MaxWidth.
MaxLen == 3

MaxWidth == 3

Chars == {"a", "b", " ", "\n"}

Strings(n) == UNION {[1 .. m -> Chars] : m \in 0 .. n}

Widths == 1 .. MaxWidth

\* The argument lists tried: none, one text, or two one-character texts.
ArgLists ==
    {<< >>} \cup {<<s>> : s \in Strings(MaxLen)}
            \cup {<<s, u>> : s \in Strings(1), u \in Strings(1)}

IsSpace(c) == c = " "

IsBlank(text) == \A i \in DOMAIN text : IsSpace(text[i])

\* sep.join(texts)
RECURSIVE JoinWith(_, _)
JoinWith(texts, sep) ==
    IF texts = << >> THEN << >>
    ELSE IF Len(texts) = 1 THEN texts[1]
    ELSE texts[1] \o sep \o JoinWith(Tail(texts), sep)

\* What print(*args) writes with the default sep and end.
PrintText(args) == JoinWith(args, <<" ">>) \o <<"\n">>

\* The position of the first newline of a text, or 0.
FirstNewline(text) ==
    IF \E i \in DOMAIN text : text[i] = "\n"
    THEN CHOOSE i \in DOMAIN text : text[i] = "\n" /\ \A j \in 1 .. i - 1 : text[j] # "\n"
    ELSE 0

\* str.splitlines(): the lines of a text without their newlines; a final
\* newline ends the last line and starts no empty one.
RECURSIVE splitlines(_)
splitlines(text) ==
    IF text = << >> THEN << >>
    ELSE LET n == FirstNewline(text)
         IN  IF n = 0 THEN <<text>>
             ELSE <<SubSeq(text, 1, n - 1)>> \o splitlines(SubSeq(text, n + 1, Len(text)))

\* The length of the run of characters of one kind (whitespace or not) a text starts with.
RunLength(text) ==
    CHOOSE n \in DOMAIN text :
        /\ \A i \in 1 .. n : IsSpace(text[i]) = IsSpace(text[1])
        /\ n = Len(text) \/ IsSpace(text[n + 1]) # IsSpace(text[1])

\* TextWrapper._split: the words of a line and the whitespace runs between them.
RECURSIVE Chunks(_)
Chunks(line) ==
    IF line = << >> THEN << >>
    ELSE LET n == RunLength(line)
         IN  <<SubSeq(line, 1, n)>> \o Chunks(SubSeq(line, n + 1, Len(line)))

RECURSIVE TotalLen(_)
TotalLen(chunks) == IF chunks = << >> THEN 0 ELSE Len(Head(chunks)) + TotalLen(Tail(chunks))

\* How many leading chunks fit a line of the given width.
Fitting(chunks, width) ==
    CHOOSE n \in 0 .. Len(chunks) :
        /\ TotalLen(SubSeq(chunks, 1, n)) <= width
        /\ n = Len(chunks) \/ TotalLen(SubSeq(chunks, 1, n + 1)) > width

\* TextWrapper._wrap_chunks with the defaults of textwrap.wrap: a whitespace
\* chunk is dropped at the start of every line but the first, chunks are
\* taken while they fit, a chunk longer than the width is cut to fill
\* the line (_handle_long_word), and a whitespace chunk that ends the line is dropped.
RECURSIVE wrap_chunks(_, _, _)
wrap_chunks(chunks, lines, width) ==
    IF chunks = << >> THEN lines
    ELSE LET kept == IF IsBlank(Head(chunks)) /\ lines # << >> THEN Tail(chunks) ELSE chunks
             n == Fitting(kept, width)
             cur == SubSeq(kept, 1, n)
             rest == SubSeq(kept, n + 1, Len(kept))
             long == rest # << >> /\ Len(Head(rest)) > width
             space_left == width - TotalLen(cur)
             cur_line == IF long THEN Append(cur, SubSeq(Head(rest), 1, space_left)) ELSE cur
             left == IF long
                     THEN <<SubSeq(Head(rest), space_left + 1, Len(Head(rest)))>> \o Tail(rest)
                     ELSE rest
             stripped == IF cur_line # << >> /\ IsBlank(cur_line[Len(cur_line)])
                         THEN SubSeq(cur_line, 1, Len(cur_line) - 1) ELSE cur_line
         IN  wrap_chunks(left,
                         IF stripped # << >> THEN Append(lines, JoinWith(stripped, << >>)) ELSE lines,
                         width)

\* A wrap that returns the line as it is.
wrap_whole(line, width) == IF line = << >> THEN << >> ELSE <<line>>

\* textwrap.wrap(line, width=width)
wrap(line, width) == wrap_chunks(Chunks(line), << >>, width)

\* What print_ww prints for one line of the captured output:
\* print("\n".join(textwrap.wrap(line, width=width)))
wrapped_print(line, width) == PrintText(<<JoinWith(wrap(line, width), <<"\n">>)>>)

\* ---------------------------------------------------------------- print_ww: streams

\* The threads that may call print_ww, the console (the stream sys.stdout
\* names before any call) and the StringIO buffer each call creates.
Threads == {"t1", "t2"}

Console == "console"

BufferOf(t) == "buffer of " \o t

Streams == {Console} \cup {BufferOf(t) : t \in Threads}

\* The file keyword handed on to print(): absent, or the console itself.
Files == {"absent", Console}

\* def print_ww(*args, width: int = 100, **kwargs)
default_width == 100

\* The locals of a print_ww call before the call is made.
NoLocals ==
    [args |-> << >>, width |-> 0, file |-> "absent", _stdout |-> "unset",
     output |-> << >>, i |-> 0, exc |-> FALSE]

\* ---------------------------------------------------------------- the notebook's state

\* The state after the set-up cells: client configured, vector store built from
\* the four examples with whatever vectors the embedding service returned.
InitNotebook ==
    /\ pc = "idle"
    /\ call = None
    /\ messages = << >>
    /\ query = None
    /\ qvec = None
    /\ selected = << >>
    /\ attempts = 0
    /\ lastOutcome = "none"
    /\ netCalls = 0
    /\ request = None
    /\ reply = None
    /\ raised = None
    /\ result = None
    /\ stages = << >>
    /\ response = None
    /\ \E vectors \in [1 .. Len(examples) -> Coords] :
          vectorstore = from_texts(to_vectorize, vectors, examples)

\* No print_ww call has been made: sys.stdout is the console, nothing is written.
InitPrinting ==
    /\ sys_stdout = Console
    /\ streams = [s \in Streams |-> << >>]
    /\ tpc = [t \in Threads |-> "idle"]
    /\ local = [t \in Threads |-> NoLocals]
    /\ sent = [t \in Threads |-> None]

Init ==
    /\ InitNotebook
    /\ titan = None
    /\ prev = None
    /\ InitPrinting

\* No call is in progress: the previous cell has returned or raised.
Ready == pc \in {"idle", "done"}

\* A new call starts with fresh per-call state.
StartCall(c) ==
    /\ Ready
    /\ call' = c
    /\ qvec' = None
    /\ attempts' = 0
    /\ lastOutcome' = "none"
    /\ netCalls' = 0
    /\ reply' = None
    /\ raised' = None
    /\ result' = None
    /\ UNCHANGED vectorstore

\* StartCall for the calls that do not begin with the selector.
StartCallNoQuery(c) == StartCall(c) /\ query' = None

\* ---------------------------------------------------------------- direct converse calls

\* response = boto3_bedrock.converse(messages=messages_list, ...): the request is built.
converse_cell ==
    /\ StartCallNoQuery([kind |-> "converse_cell", arg |-> << >>])
    /\ messages' = messages_list
    /\ selected' = << >>
    /\ request' = converse_request(messages_list)
    /\ stages' = << >>
    /\ pc' = "model"
    /\ UNCHANGED response

\* invoke_meta_converse(prompt_str, boto3_bedrock): a one-message list, then converse.
invoke_meta_converse(prompt_str) ==
    /\ StartCallNoQuery([kind |-> "invoke_meta_converse", arg |-> [input |-> prompt_str]])
    /\ messages' = << Msg("user", prompt_str) >>
    /\ selected' = << >>
    /\ request' = converse_request(messages')
    /\ stages' = << >>
    /\ pc' = "model"
    /\ UNCHANGED response

\* ---------------------------------------------------------------- the chains

\* pirate_chain.invoke(x) for a dict x: RunnablePassthrough hands the dict on unchanged.
pirate_chain_invoke(x) ==
    /\ StartCallNoQuery([kind |-> "pirate_chain", arg |-> x])
    /\ messages' = << >>
    /\ selected' = << >>
    /\ request' = None
    /\ stages' = << "RunnablePassthrough" >>
    /\ pc' = "prompt"
    /\ UNCHANGED response

\* The prompt stage of pirate_chain: the input is validated, then both
\* templates are formatted with it.
prompt_invoke ==
    /\ pc = "prompt"
    /\ call.kind = "pirate_chain"
    /\ LET v == validate_input(input_variables(prompt), call.arg)
       IN  IF v.kind = "error"
           THEN /\ raised' = v
                /\ result' = v
                /\ pc' = "done"
                /\ UNCHANGED <<messages, stages>>
           ELSE /\ messages' = FormatMessages(prompt, v.value)
                /\ stages' = Append(stages, "prompt")
                /\ pc' = "llm"
                /\ UNCHANGED <<raised, result>>
    /\ UNCHANGED <<call, query, qvec, selected, attempts, lastOutcome, netCalls, request, reply,
                   response, vectorstore>>

\* chain.invoke(x) for a dict x, with chain = final_prompt | bedrock_llm.
chain_invoke(x) ==
    /\ StartCallNoQuery([kind |-> "chain", arg |-> x])
    /\ messages' = << >>
    /\ selected' = << >>
    /\ request' = None
    /\ stages' = << >>
    /\ pc' = "prompt"
    /\ UNCHANGED response

\* The input variables of final_prompt: those of its own entries and the
\* input_variables=["input"] declared for few_shot_prompt.
final_prompt_variables ==
    input_variables(final_prompt_system) \cup {"input"} \cup input_variables(final_prompt_human)

\* final_prompt validates its input, formats its system entry, then asks
\* few_shot_prompt for its messages, which starts the selector's embedding call.
final_prompt_begin ==
    /\ pc = "prompt"
    /\ call.kind = "chain"
    /\ LET v == validate_input(final_prompt_variables, call.arg)
       IN  IF v.kind = "error"
           THEN /\ raised' = v
                /\ result' = v
                /\ pc' = "done"
                /\ UNCHANGED <<messages, query>>
           ELSE /\ messages' = FormatMessages(final_prompt_system, v.value)
                /\ query' = Text(example_to_text(v.value))
                /\ pc' = "embed"
                /\ UNCHANGED <<raised, result>>
    /\ UNCHANGED <<call, qvec, selected, attempts, lastOutcome, netCalls, request, reply,
                   stages, response, vectorstore>>

\* example_selector.select_examples({"input": x}) called on its own.
select_examples_cell(x) ==
    /\ StartCall([kind |-> "select_examples", arg |-> [input |-> x]])
    /\ query' = Text(example_to_text(call'.arg))
    /\ messages' = << >>
    /\ selected' = << >>
    /\ request' = None
    /\ stages' = << >>
    /\ pc' = "embed"
    /\ UNCHANGED response

\* ---------------------------------------------------------------- the client's attempts

\* A client that retries without counting its attempts.
WillRetry_unbounded(outcome, made, quotaOk) ==
    Retryable(outcome) /\ quotaOk

\* After a failed attempt the client sends the request again when the failure
\* is retryable, attempts remain and its retry quota grants the retry.
WillRetry(outcome, made, quotaOk) ==
    Retryable(outcome) /\ made < total_max_attempts /\ quotaOk

\* A selector that answers a failed embedding call with no examples.
selector_outcome_fallback(store, q, outcome) ==
    IF outcome = "ok"
    THEN [kind |-> "examples", value |-> select_examples(store, q)]
    ELSE [kind |-> "examples", value |-> << >>]

\* What the selector hands back once the embedding call has ended: the
\* selected examples, or the failure of the embedding call.
selector_outcome(store, q, outcome) ==
    IF outcome = "ok"
    THEN [kind |-> "examples", value |-> select_examples(store, q)]
    ELSE EmbeddingError(outcome)

\* A sequence that answers a stage's exception with an empty message.
RunnableSequence_fallback(out) ==
    IF out.kind = "error" THEN [kind |-> "AIMessage", content |-> ""] ELSE out

\* A RunnableSequence (a | b | c) hands each stage's value to the next stage
\* and lets a stage's exception leave invoke() as it is.
RunnableSequence(out) == out

\* One HTTP attempt of the embedding call (invoke_model) made by the selector;
\* q is the vector the embedding service returns for the query text.
EmbedAttempt(outcome, quotaOk, q) ==
    /\ pc = "embed"
    /\ ~Sent(outcome) => attempts = 0
    /\ IF WillRetry(outcome, attempts + 1, quotaOk)
       THEN /\ attempts' = attempts + 1
            /\ lastOutcome' = outcome
            /\ UNCHANGED <<pc, qvec, selected, raised, result, stages>>
       ELSE LET out == selector_outcome(vectorstore, q, outcome)
                seen == IF call.kind = "chain" THEN RunnableSequence(out) ELSE out
            IN  /\ attempts' = 0
                /\ lastOutcome' = "none"
                /\ qvec' = IF outcome = "ok" THEN Vector(q) ELSE None
                /\ raised' = IF outcome = "ok" THEN None ELSE EmbeddingError(outcome)
                /\ selected' = IF seen.kind = "examples" THEN seen.value ELSE << >>
                /\ stages' = IF seen.kind = "examples"
                             THEN Append(stages, "example_selector") ELSE stages
                /\ IF seen.kind = "examples" /\ call.kind = "chain"
                   THEN pc' = "fewshot" /\ UNCHANGED result
                   ELSE pc' = "done" /\ result' = seen
    /\ vectorstore' = IF outcome = "ok"
                      THEN index_after_search(vectorstore, query.text, q)
                      ELSE vectorstore
    /\ UNCHANGED <<call, messages, query, netCalls, request, reply, response>>

\* few_shot_prompt renders the selected examples and final_prompt adds the
\* human entry: the prompt is complete.
final_prompt_end ==
    /\ pc = "fewshot"
    /\ messages' = final_prompt(selected, validate_input(final_prompt_variables, call.arg).value)
    /\ stages' = Append(stages, "final_prompt")
    /\ pc' = "llm"
    /\ UNCHANGED <<call, query, qvec, selected, attempts, lastOutcome, netCalls, request, reply,
                   raised, result, response, vectorstore>>

\* bedrock_llm receives the prompt value and calls the client.
bedrock_llm_invoke ==
    /\ pc = "llm"
    /\ request' = bedrock_llm_request(messages)
    /\ pc' = "model"
    /\ UNCHANGED <<call, messages, query, qvec, selected, attempts, lastOutcome, netCalls, reply, raised,
                   result, stages, response, vectorstore>>

\* The converse response: generated text plus usage and latency.
ModelResponse(text) ==
    [kind |-> "ModelResponse", text |-> text,
     latencyMs |-> "1335", inputTokens |-> "58", outputTokens |-> "100"]

\* response_body of the first converse cell.
response_body(r) ==
    r.text \o "\n--- Latency: " \o r.latencyMs \o "ms - Input tokens:" \o r.inputTokens
           \o " - Output tokens:" \o r.outputTokens \o " ---\n"

\* What the model stage yields for a converse response.
AIMessage(r) == [kind |-> "AIMessage", content |-> r.text]

\* A parser that hands the message on as it is.
StrOutputParser_identity(m) == m

\* StrOutputParser: the text of the message.
StrOutputParser(m) == [kind |-> "str", text |-> m.content]

\* Whether the call goes through langchain (a chain) or calls converse itself.
IsChain(c) == c.kind \in {"pirate_chain", "chain"}

\* One HTTP attempt of the converse call.
ConverseAttempt(outcome, quotaOk, text) ==
    /\ pc = "model"
    /\ ~Sent(outcome) => attempts = 0
    /\ netCalls' = IF Sent(outcome) THEN netCalls + 1 ELSE netCalls
    /\ attempts' = IF WillRetry(outcome, attempts + 1, quotaOk) THEN attempts + 1 ELSE 0
    /\ lastOutcome' = IF WillRetry(outcome, attempts + 1, quotaOk) THEN outcome ELSE "none"
    /\ IF WillRetry(outcome, attempts + 1, quotaOk)
       THEN UNCHANGED <<pc, reply, raised, result, stages, response>>
       ELSE IF outcome # "ok"
       THEN LET e == ClientError(outcome)
                seen == IF IsChain(call) THEN RunnableSequence(e) ELSE e
            IN  /\ raised' = e
                /\ UNCHANGED <<stages, response>>
                /\ IF seen.kind = "error"
                   THEN reply' = None /\ result' = seen /\ pc' = "done"
                   ELSE IF call.kind = "pirate_chain"
                   THEN reply' = seen /\ UNCHANGED result /\ pc' = "parse"
                   ELSE reply' = seen /\ result' = seen /\ pc' = "done"
       ELSE LET r == ModelResponse(text)
            IN  /\ raised' = None
                /\ stages' = IF IsChain(call) THEN Append(stages, "bedrock_llm") ELSE stages
                /\ CASE call.kind = "converse_cell" ->
                            /\ reply' = r
                            /\ response' = r
                            /\ result' = [kind |-> "str", text |-> response_body(r)]
                            /\ pc' = "done"
                     [] call.kind = "invoke_meta_converse" ->
                            /\ reply' = r
                            /\ result' = [kind |-> "str", text |-> r.text]
                            /\ pc' = "done"
                            /\ UNCHANGED response
                     [] call.kind = "pirate_chain" ->
                            /\ reply' = RunnableSequence(AIMessage(r))
                            /\ pc' = "parse"
                            /\ UNCHANGED <<result, response>>
                     [] call.kind = "chain" ->
                            /\ reply' = RunnableSequence(AIMessage(r))
                            /\ result' = reply'
                            /\ response' = reply'
                            /\ pc' = "done"
    /\ UNCHANGED <<call, messages, query, qvec, selected, request,
                   vectorstore>>

\* The last stage of pirate_chain.
StrOutputParser_invoke ==
    /\ pc = "parse"
    /\ result' = StrOutputParser(reply)
    /\ stages' = Append(stages, "StrOutputParser")
    /\ pc' = "done"
    /\ UNCHANGED <<call, messages, query, qvec, selected, attempts, lastOutcome, netCalls, request,
                   reply, raised, response, vectorstore>>

\* The notebook's cells run one after another; no thread calls print_ww meanwhile.
Next ==
    \/ converse_cell /\ UNCHANGED <<runs, printing>>
    \/ \E x \in Inputs : invoke_meta_converse(x) /\ UNCHANGED <<runs, printing>>
    \/ \E x \in InputDicts : pirate_chain_invoke(x) /\ UNCHANGED <<runs, printing>>
    \/ prompt_invoke /\ UNCHANGED <<runs, printing>>
    \/ \E x \in InputDicts : chain_invoke(x) /\ UNCHANGED <<runs, printing>>
    \/ final_prompt_begin /\ UNCHANGED <<runs, printing>>
    \/ \E x \in Inputs : select_examples_cell(x) /\ UNCHANGED <<runs, printing>>
    \/ \E o \in Outcomes, g \in BOOLEAN, q \in Coords :
          EmbedAttempt(o, g, q) /\ UNCHANGED <<runs, printing>>
    \/ final_prompt_end /\ UNCHANGED <<runs, printing>>
    \/ bedrock_llm_invoke /\ UNCHANGED <<runs, printing>>
    \/ \E o \in Outcomes, g \in BOOLEAN, t \in ModelTexts :
          ConverseAttempt(o, g, t) /\ UNCHANGED <<runs, printing>>
    \/ StrOutputParser_invoke /\ UNCHANGED <<runs, printing>>

Spec == Init /\ [][Next]_vars

\* converse() is a blocking call: the client makes the attempt that is due,
\* and each attempt ends (with a response, an error or a timeout).  An attempt
\* either is followed by another one (attempts grows) or ends the operation (pc moves).
SpecFair ==
    /\ Spec
    /\ WF_<<pc, attempts>>(\E o \in Outcomes, g \in BOOLEAN, t \in ModelTexts :
                              ConverseAttempt(o, g, t) /\ UNCHANGED <<runs, printing>>)

\* ---------------------------------------------------------------- two runs of chain compared

\* The set-up cells have run and the embedding model is fixed: the embedding
\* service returns the same vector for the same text in every run.
InitRuns ==
    /\ InitNotebook
    /\ titan \in [Inputs -> Coords]
    /\ prev = None
    /\ InitPrinting

\* When the next run starts, the request and the reply of the run that
\* just ended are kept for comparison.
Remember ==
    prev' = IF request # None
            THEN [call |-> call, request |-> request, reply |-> result]
            ELSE prev

\* Runs of chain.invoke one after another, with the embedding service fixed.
\* Every outcome of an attempt is taken as final here (the retry quota grants
\* nothing): a retry sends the same request again and builds none.
NextRuns ==
    \/ \E x \in Inputs :
          chain_invoke([input |-> x]) /\ Remember /\ UNCHANGED <<titan, printing>>
    \/ final_prompt_begin /\ UNCHANGED <<runs, printing>>
    \/ \E o \in Outcomes :
          EmbedAttempt(o, FALSE, titan[query.text]) /\ UNCHANGED <<runs, printing>>
    \/ final_prompt_end /\ UNCHANGED <<runs, printing>>
    \/ bedrock_llm_invoke /\ UNCHANGED <<runs, printing>>
    \/ \E o \in Outcomes, t \in ModelTexts :
          ConverseAttempt(o, FALSE, t) /\ UNCHANGED <<runs, printing>>

SpecRuns == InitRuns /\ [][NextRuns]_vars

\* ---------------------------------------------------------------- print_ww: the call

\* stream.write(text) by thread t.
Write(s, t, text) == [streams EXCEPT ![s] = Append(@, [by |-> t, text |-> text])]

\* StringIO.getvalue(): all that was written to the buffer, in order.
RECURSIVE getvalue(_)
getvalue(entries) ==
    IF entries = << >> THEN << >> ELSE Head(entries).text \o getvalue(Tail(entries))

\* Thread t enters print_ww(*args, width=width, file=file): buffer = StringIO()
print_ww_call(t, args, width, file) ==
    /\ tpc[t] = "idle"
    /\ local' = [local EXCEPT ![t] =
                    [NoLocals EXCEPT !.args = args, !.width = width, !.file = file]]
    /\ streams' = [streams EXCEPT ![BufferOf(t)] = << >>]
    /\ tpc' = [tpc EXCEPT ![t] = "try"]
    /\ UNCHANGED <<sys_stdout, sent, pipeline, runs>>

\* The texts a model reply may consist of when the reply is printed.
ReplyTexts == {<<"a", "b">>, <<"b", " ", "a">>}

\* Thread t runs print_ww(pirate_chain.invoke({"input": x})): the chain builds
\* the thread's own request from its own input, the model replies, and
\* print_ww is entered with the parsed reply and the default width.
print_ww_pirate_chain(t, x, text) ==
    /\ tpc[t] = "idle"
    /\ sent' = [sent EXCEPT ![t] = bedrock_llm_request(FormatMessages(prompt, [input |-> x]))]
    /\ local' = [local EXCEPT ![t] =
                    [NoLocals EXCEPT
                        !.args = <<StrOutputParser(RunnableSequence(AIMessage(ModelResponse(text)))).text>>,
                        !.width = default_width]]
    /\ streams' = [streams EXCEPT ![BufferOf(t)] = << >>]
    /\ tpc' = [tpc EXCEPT ![t] = "try"]
    /\ UNCHANGED <<sys_stdout, pipeline, runs>>

\* _stdout = sys.stdout
save_stdout(t) ==
    /\ tpc[t] = "try"
    /\ local' = [local EXCEPT ![t]._stdout = sys_stdout]
    /\ tpc' = [tpc EXCEPT ![t] = "swap"]
    /\ UNCHANGED <<sys_stdout, streams, sent, pipeline, runs>>

\* sys.stdout = buffer
install_buffer(t) ==
    /\ tpc[t] = "swap"
    /\ sys_stdout' = BufferOf(t)
    /\ tpc' = [tpc EXCEPT ![t] = "print"]
    /\ UNCHANGED <<streams, local, sent, pipeline, runs>>

\* print(*args, **kwargs): the text goes to the stream named by file, or to
\* whatever sys.stdout is now; or print raises (an argument whose __str__
\* raises) and control goes to the finally clause.
inner_print(t, fails) ==
    /\ tpc[t] = "print"
    /\ LET target == IF local[t].file = "absent" THEN sys_stdout ELSE local[t].file
       IN  IF fails
           THEN /\ local' = [local EXCEPT ![t].exc = TRUE]
                /\ tpc' = [tpc EXCEPT ![t] = "finally"]
                /\ UNCHANGED streams
           ELSE /\ streams' = Write(target, t, PrintText(local[t].args))
                /\ tpc' = [tpc EXCEPT ![t] = "getvalue"]
                /\ UNCHANGED local
    /\ UNCHANGED <<sys_stdout, sent, pipeline, runs>>

\* output = buffer.getvalue()
buffer_getvalue(t) ==
    /\ tpc[t] = "getvalue"
    /\ local' = [local EXCEPT ![t].output = getvalue(streams[BufferOf(t)])]
    /\ tpc' = [tpc EXCEPT ![t] = "finally"]
    /\ UNCHANGED <<sys_stdout, streams, sent, pipeline, runs>>

\* A restore placed after the try block instead of in a finally clause: an
\* exception skips it.
restore_after_try(saved, exc, current) == IF exc THEN current ELSE saved

\* What the finally clause leaves in sys.stdout: the saved stream, whether
\* the try block raised or not.
restore_finally(saved, exc, current) == saved

\* finally: sys.stdout = _stdout; then the exception leaves print_ww, or the
\* loop over output.splitlines() starts (and ends at once when there is no line).
finally_restore(t) ==
    /\ tpc[t] = "finally"
    /\ sys_stdout' = restore_finally(local[t]._stdout, local[t].exc, sys_stdout)
    /\ local' = [local EXCEPT ![t].i = 1]
    /\ tpc' = [tpc EXCEPT ![t] =
                  IF local[t].exc THEN "raised"
                  ELSE IF splitlines(local[t].output) = << >> THEN "returned"
                  ELSE "emit"]
    /\ UNCHANGED <<streams, sent, pipeline, runs>>

\* One turn of the loop: print("\n".join(textwrap.wrap(line, width=width)))
print_line(t) ==
    /\ tpc[t] = "emit"
    /\ LET lines == splitlines(local[t].output)
       IN  /\ streams' = Write(sys_stdout, t, wrapped_print(lines[local[t].i], local[t].width))
           /\ local' = [local EXCEPT ![t].i = @ + 1]
           /\ tpc' = [tpc EXCEPT ![t] = IF local[t].i = Len(lines) THEN "returned" ELSE "emit"]
    /\ UNCHANGED <<sys_stdout, sent, pipeline, runs>>

\* The thread of a single-threaded run.
MainThread == "t1"

\* The state print_ww is called in: no notebook call is in progress; which
\* vectors the store holds is of no concern to print_ww.
InitPrint ==
    /\ Init
    /\ \A i \in DOMAIN vectorstore : vectorstore[i].vector = 0

\* One print_ww call in a single-threaded run, with any arguments.
NextPrint ==
    \/ \E args \in ArgLists, width \in Widths, file \in Files :
          print_ww_call(MainThread, args, width, file)
    \/ save_stdout(MainThread)
    \/ install_buffer(MainThread)
    \/ \E fails \in BOOLEAN : inner_print(MainThread, fails)
    \/ buffer_getvalue(MainThread)
    \/ finally_restore(MainThread)
    \/ print_line(MainThread)

SpecPrint == InitPrint /\ [][NextPrint]_vars

\* Threads that each print the result of their own chain call; a thread
\* switch may come between any two statements of print_ww.
NextThreads ==
    \/ \E t \in Threads, x \in Inputs, text \in ReplyTexts : print_ww_pirate_chain(t, x, text)
    \/ \E t \in Threads : save_stdout(t)
    \/ \E t \in Threads : install_buffer(t)
    \/ \E t \in Threads, fails \in BOOLEAN : inner_print(t, fails)
    \/ \E t \in Threads : buffer_getvalue(t)
    \/ \E t \in Threads : finally_restore(t)
    \/ \E t \in Threads : print_line(t)

SpecThreads == InitPrint /\ [][NextThreads]_vars

\* ---------------------------------------------------------------- properties

Has(seq, x) == \E i \in DOMAIN seq : seq[i] = x

IsPrefix(a, b) == Len(a) <= Len(b) /\ \A i \in DOMAIN a : a[i] = b[i]

\* C1: once final_prompt has assembled the prompt of a chain call, the messages
\* are exactly system instruction, user(example.input), assistant(example.output),
\* user(current input), for the one selected example, and that sequence is what
\* the model is sent.
C1_FewShotOrder ==
    /\ Has(stages, "final_prompt") =>
          /\ Len(selected) = 1
          /\ messages =
                << Msg("system", "You curtain your answer based on the examples provided"),
                   Msg("user", selected[1].input),
                   Msg("assistant", selected[1].output),
                   Msg("user", call.arg.input) >>
    /\ (call.kind = "chain" /\ request # None) =>
          /\ Has(stages, "final_prompt")
          /\ request.messages = messages

C1_Witness ==
    /\ call.kind = "chain"
    /\ pc = "model"
    /\ call.arg.input = "Is it hot out?"
    /\ selected = << examples[4] >>

\* C2: the zero-shot prompt is exactly system instruction then one user message
\* with the current input; final_prompt without an example has the same shape.
C2_ZeroShotTwoMessages ==
    /\ Has(stages, "prompt") =>
          messages =
             << Msg("system", "You are a pirate. Answer the following questions as best you can."),
                Msg("user", call.arg.input) >>
    /\ (call.kind = "pirate_chain" /\ request # None) =>
          /\ Has(stages, "prompt")
          /\ request.messages = messages
    /\ \A x \in Inputs :
          final_prompt(<< >>, [input |-> x]) =
             << Msg("system", "You curtain your answer based on the examples provided"),
                Msg("user", x) >>

C2_Witness ==
    /\ call.kind = "pirate_chain"
    /\ pc = "model"
    /\ Len(request.messages) = 2

AdapterFailed ==
    raised.kind = "error" /\ raised.type \in {"RateLimitError", "ServiceError"}

\* C3: when the model client raises inside a chain, invoke() ends in that same
\* exception: nothing is returned in its place and no later stage has run.
C3_AdapterFailurePropagates ==
    (IsChain(call) /\ AdapterFailed) =>
        /\ pc = "done"
        /\ result = raised
        /\ reply = None
        /\ ~Has(stages, "bedrock_llm")
        /\ ~Has(stages, "StrOutputParser")

C3_Witness ==
    /\ call.kind = "pirate_chain"
    /\ pc = "done"
    /\ AdapterFailed
    /\ raised.type = "RateLimitError"

\* C4: every request the direct converse calls hand to the client carries
\* temperature 0.5, maxTokens 100 and topP 0.9 under exactly those names.
C4_GenerationConfigPassed ==
    (request # None /\ request.api = "converse") =>
        request.inferenceConfig = [temperature |-> 5, maxTokens |-> 100, topP |-> 9]

C4_Witness ==
    /\ call.kind = "invoke_meta_converse"
    /\ pc = "model"
    /\ attempts >= 1
    /\ request.messages = << Msg("user", "Is it hot out?") >>

\* The call returned what the model generated.
Succeeded == result.kind \in {"str", "AIMessage"}

\* C5 as stated: an invocation of the model client that ended in success,
\* throttling or transport failure has made exactly one outbound converse request.
C5_ExactlyOneCall ==
    (/\ pc = "done"
     /\ request # None
     /\ \/ Succeeded
        \/ result.kind = "error" /\ result.cause \in {"throttled", "transport"})
        => netCalls = 1

\* C5 as amended: an invocation makes one request per attempt the client sends:
\* none when the client fails before sending, otherwise at least one and at most
\* 11 (the first attempt and max_attempts = 10 retries), and an attempt beyond
\* the first follows only a throttled or transport-failed attempt.
C5_OneCallPerAttempt ==
    /\ request = None => netCalls = 0
    /\ pc = "model" =>
          /\ netCalls = attempts
          /\ attempts < 11
          /\ (attempts >= 1 => lastOutcome \in {"throttled", "transport"})
    /\ (pc = "done" /\ request # None) =>
          /\ netCalls <= 11
          /\ netCalls = 0 <=> (result.kind = "error" /\ result.cause = "unsent")

C5_Witness ==
    /\ pc = "done"
    /\ netCalls = 11
    /\ result.kind = "error"
    /\ result.type = "RateLimitError"

\* The stages of each chain, in the order they are composed.
ExpectedStages(c) ==
    IF c.kind = "pirate_chain"
    THEN << "RunnablePassthrough", "prompt", "bedrock_llm", "StrOutputParser" >>
    ELSE << "example_selector", "final_prompt", "bedrock_llm" >>

\* What C6 says of the stages' order and of the model call, for both chains.
StagesInOrder ==
    IsChain(call) =>
        /\ IsPrefix(stages, ExpectedStages(call))
        /\ request # None =>
              /\ Has(stages, IF call.kind = "chain" THEN "final_prompt" ELSE "prompt")
              /\ request.messages = messages
        /\ netCalls > 0 => request # None
        /\ (pc = "done" /\ result.kind # "error") => stages = ExpectedStages(call)

\* C6 as stated: the stages run in their fixed order, the model is called only
\* with the complete prompt, and every chain returns the extracted text, a string.
C6_ReturnsString ==
    /\ StagesInOrder
    /\ (IsChain(call) /\ pc = "done" /\ result.kind # "error") =>
          /\ result.kind = "str"
          /\ result.text \in ModelTexts

\* C6 as amended: the same order; pirate_chain returns the extracted text, while
\* chain, which has no output parser, returns the model's message object.
C6_LinearStages ==
    /\ StagesInOrder
    /\ (call.kind = "pirate_chain" /\ pc = "done" /\ result.kind # "error") =>
          /\ result.kind = "str"
          /\ result.text \in ModelTexts
          /\ result.text = reply.content
    /\ (call.kind = "chain" /\ pc = "done" /\ result.kind # "error") =>
          /\ result.kind = "AIMessage"
          /\ result.content \in ModelTexts
          /\ result = reply

C6_Witness ==
    /\ call.kind = "chain"
    /\ pc = "done"
    /\ result.kind = "AIMessage"
    /\ netCalls > 1

\* The texts a call's request may carry: the system instruction, the example
\* selected for this call, this call's input, or what the caller wrote out.
AllowedTexts ==
    CASE call.kind = "chain" ->
            {"You curtain your answer based on the examples provided", call.arg.input}
                \cup {selected[i].input : i \in DOMAIN selected}
                \cup {selected[i].output : i \in DOMAIN selected}
      [] call.kind = "pirate_chain" ->
            {"You are a pirate. Answer the following questions as best you can.",
             call.arg.input}
      [] call.kind = "invoke_meta_converse" -> {call.arg.input}
      [] OTHER -> {messages_list[i].content : i \in DOMAIN messages_list}

\* The text of the response an earlier call left in the notebook.
EarlierTexts ==
    CASE response.kind = "AIMessage"     -> {response.content}
      [] response.kind = "ModelResponse" -> {response.text}
      [] OTHER                           -> {}

\* C7: whatever calls came before, a request carries only the system instruction,
\* the selected example and this call's input, and no text of an earlier response.
C7_Stateless ==
    request # None =>
        \A i \in DOMAIN request.messages :
            /\ request.messages[i].content \in AllowedTexts
            /\ request.messages[i].content \notin EarlierTexts
            /\ request.messages[i].content \notin ModelTexts

C7_Witness ==
    /\ call.kind = "chain"
    /\ pc = "model"
    /\ response.kind = "AIMessage"
    /\ call.arg.input = "Is it hot out?"

\* C8: a completed selection holds exactly one example, it is the metadata of a
\* stored document and one of the four examples, and no stored document is
\* strictly nearer to the query vector.
C8_NearestExample ==
    Has(stages, "example_selector") =>
        /\ Len(selected) = 1
        /\ \E i \in DOMAIN vectorstore :
              /\ vectorstore[i].metadata = selected[1]
              /\ examples[i] = selected[1]
              /\ \A j \in DOMAIN vectorstore :
                    Distance(vectorstore[j].vector, qvec.coord)
                        >= Distance(vectorstore[i].vector, qvec.coord)

C8_Witness ==
    /\ Has(stages, "example_selector")
    /\ selected = << examples[3] >>
    /\ Distance(vectorstore[1].vector, qvec.coord) > Distance(vectorstore[3].vector, qvec.coord)
    /\ Distance(vectorstore[4].vector, qvec.coord) = Distance(vectorstore[3].vector, qvec.coord)

EmbeddingFailed ==
    raised.kind = "error" /\ raised.type = "EmbeddingServiceError"

\* C10: when the embedding call fails, the call ends in that EmbeddingServiceError:
\* no example is selected, no prompt is completed and the model is not called.
C10_EmbeddingFailureSurfaces ==
    EmbeddingFailed =>
        /\ pc = "done"
        /\ result = raised
        /\ selected = << >>
        /\ ~Has(stages, "example_selector")
        /\ ~Has(stages, "final_prompt")
        /\ request = None
        /\ netCalls = 0

C10_Witness ==
    /\ call.kind = "chain"
    /\ pc = "done"
    /\ EmbeddingFailed
    /\ result.type = "EmbeddingServiceError"

\* The message roles of the chat API.
Roles == {"system", "user", "assistant"}

\* A request the model client accepts: it names the model and carries at least
\* one message, every message has a known role, and the last one is the user's.
ValidRequest(r) ==
    /\ r.modelId = modelId
    /\ Len(r.messages) >= 1
    /\ \A i \in DOMAIN r.messages : r.messages[i].role \in Roles
    /\ r.messages[Len(r.messages)].role = "user"

AdapterEnded == request # None /\ pc \in {"parse", "done"}

\* C12 as stated: an invocation ends after at most max_attempts = 10 attempts.
C12_AtMostTenAttempts == netCalls <= max_attempts

\* C12: an invocation of the model client always ends, in a response or in a
\* ServiceError, or a RateLimitError when the last attempt was throttled; the
\* client sends at most max_attempts + 1 = 11 attempts (the first one and ten
\* retries), and once the client has raised the call is over: nothing in the
\* notebook sends the request again.
C12_AdapterEnds ==
    /\ [](/\ netCalls <= max_attempts + 1
          /\ attempts <= max_attempts
          /\ AdapterEnded =>
                /\ attempts = 0
                /\ \/ raised = None /\ reply.kind \in {"ModelResponse", "AIMessage"}
                   \/ /\ raised.kind = "error"
                      /\ raised.type \in {"ServiceError", "RateLimitError"}
                      /\ raised.type = "RateLimitError" <=> raised.cause = "throttled"
                      /\ pc = "done")
    /\ (pc = "model") ~> AdapterEnded

\* Every attempt the client was allowed was throttled: the call has ended in RateLimitError.
C12_Witness ==
    /\ pc = "done"
    /\ raised # None
    /\ raised.type = "RateLimitError"
    /\ netCalls = max_attempts + 1

\* A chain was invoked with an input that lacks the key "input".
MissingInput == IsChain(call) /\ "input" \notin DOMAIN call.arg

\* C13: when the input of a chain lacks the variable "input", the prompt stage
\* fails with TemplateError: the call ends in that error, no message sequence is
\* produced, no request is built and no model call is made.
C13_MissingVariableFails ==
    (MissingInput /\ pc # "prompt") =>
        /\ pc = "done"
        /\ raised = TemplateError
        /\ result = TemplateError
        /\ messages = << >>
        /\ request = None
        /\ netCalls = 0
        /\ ~Has(stages, "prompt")
        /\ ~Has(stages, "final_prompt")

\* chain.invoke({"question": ...}) has ended in TemplateError.
C13_Witness ==
    /\ call.kind = "chain"
    /\ MissingInput
    /\ pc = "done"
    /\ result.type = "TemplateError"

\* The (input, output) pairs the store holds, in order.
StoredExamples(store) == [i \in DOMAIN store |-> store[i].metadata]

\* C14: no step of any call changes the vector store: after every step it holds
\* the documents, vectors and order it was loaded with, and its records are the
\* four examples.
C14_ExamplesNeverChange ==
    [][vectorstore' = vectorstore /\ StoredExamples(vectorstore') = examples]_vars

\* A few-shot call has searched the store and got its reply from the model.
C14_Witness ==
    /\ call.kind = "chain"
    /\ pc = "done"
    /\ Has(stages, "example_selector")
    /\ result.kind = "AIMessage"
    /\ StoredExamples(vectorstore) = examples

\* Every thread's call has returned or raised.
AllReturned == \A t \in Threads : tpc[t] \in {"returned", "raised"}

\* C15: under every interleaving of calls that print their result through
\* print_ww, each call has made its own request, no text of one call is
\* written into the buffer of another, and once all calls have returned
\* sys.stdout is the stream installed before the calls began.
C15_CallsShareNothing ==
    /\ \A t \in Threads : tpc[t] # "idle" => sent[t] # None
    /\ \A t \in Threads : \A n \in DOMAIN streams[BufferOf(t)] :
          streams[BufferOf(t)][n].by = t
    /\ AllReturned => sys_stdout = Console

\* A message sequence without its leading system message, if it has one.
AfterSystem(msgs) ==
    IF msgs # << >> /\ msgs[1].role = "system" THEN Tail(msgs) ELSE msgs

\* C16: every message sequence handed to the model client uses only the roles
\* system, user and assistant, has a system message in first position or not
\* at all, and after it alternates user, assistant, user, ..., beginning and
\* ending with user.
C16_RolesAlternate ==
    request # None =>
        LET turns == AfterSystem(request.messages)
        IN  /\ \A i \in DOMAIN request.messages : request.messages[i].role \in Roles
            /\ Len(turns) % 2 = 1
            /\ \A i \in DOMAIN turns :
                  turns[i].role = IF i % 2 = 1 THEN "user" ELSE "assistant"

\* A few-shot request (system, example, input) has been answered.
C16_Witness ==
    /\ pc = "done"
    /\ request # None
    /\ request.api = "ChatBedrock"
    /\ Len(request.messages) = 4
    /\ request.messages[1].role = "system"
    /\ raised = None

\* The lines print(*args) would have produced, and the lines on the console.
PrintedLines == splitlines(PrintText(local[MainThread].args))

WrittenLines == splitlines(getvalue(streams[Console]))

\* The lines print_ww writes for one line of print(): its pieces, or one empty
\* line when there is no piece.
PiecesWritten(line, width) ==
    IF wrap(line, width) = << >> THEN << << >> >> ELSE wrap(line, width)

RECURSIVE AllPieces(_, _)
AllPieces(lines, width) ==
    IF lines = << >> THEN << >>
    ELSE PiecesWritten(Head(lines), width) \o AllPieces(Tail(lines), width)

\* A text without its whitespace.
RECURSIVE NonSpace(_)
NonSpace(text) ==
    IF text = << >> THEN << >>
    ELSE (IF IsSpace(Head(text)) THEN << >> ELSE <<Head(text)>>) \o NonSpace(Tail(text))

\* print_ww(*args, width=width) without a file keyword has returned.
Wrapped == tpc[MainThread] = "returned" /\ local[MainThread].file = "absent"

CallOver == tpc[MainThread] \in {"returned", "raised"}

\* The positions of print_ww at which its buffer is installed as sys.stdout.
BufferInstalled == tpc[MainThread] \in {"print", "getvalue", "finally"}

C19_QueryIsLastMessage ==
    (call.kind = "chain" /\ query # None) =>
        /\ query.text = call.arg.input
        /\ request # None =>
              /\ request.messages[Len(request.messages)].role = "user"
              /\ request.messages[Len(request.messages)].content = query.text

\* A few-shot request whose example was selected for "What is the weather in
\* Texas?" has been handed to the model client.
C19_Witness ==
    /\ call.kind = "chain"
    /\ request # None
    /\ query = Text("What is the weather in Texas?")
    /\ Len(selected) = 1
    /\ request.messages[4].content = "What is the weather in Texas?"

\* C20: document i of the store is example i, indexed under its input and its
\* output joined by one space and carrying the example record itself; a
\* completed selection is the record of the document the search found, with
\* its input and output fields as they are in the example list.
C20_IndexedJoinedReturnsRecord ==
    /\ Len(vectorstore) = Len(examples)
    /\ \A i \in DOMAIN vectorstore :
          /\ vectorstore[i].page_content = examples[i].input \o " " \o examples[i].output
          /\ vectorstore[i].metadata = [input |-> examples[i].input, output |-> examples[i].output]
    /\ Has(stages, "example_selector") =>
          LET found == SearchIndices(vectorstore, qvec.coord, DOMAIN vectorstore, k)
          IN  /\ Len(selected) = Len(found)
              /\ \A n \in DOMAIN selected :
                    /\ DOMAIN selected[n] = {"input", "output"}
                    /\ selected[n].input = examples[found[n]].input
                    /\ selected[n].output = examples[found[n]].output
                    /\ selected[n] # [input |-> vectorstore[found[n]].page_content, output |-> ""]

\* select_examples, called on its own, has returned the fourth example as a record.
C20_Witness ==
    /\ call.kind = "select_examples"
    /\ pc = "done"
    /\ result.kind = "examples"
    /\ result.value = << [input  |-> "There is something wrong with my computer",
                          output |-> "Respond as if you are a former pirate turned IT repair expert:\n"] >>

====
